---- MODULE Spec2Model ----
(***************************************************************************)
(* Dynamic value reference model of dds::core::xtypes (DynamicData.hpp):   *)
(* ReadableDynamicDataRef, WritableDynamicDataRef and DynamicData over     *)
(* instances whose interpretation is driven by a run-time DynamicType.     *)
(*                                                                         *)
(* The view layer is translated from DynamicData.hpp.  The DynamicType     *)
(* hierarchy (PrimitiveType, StringType, SequenceType, StructType) lives   *)
(* in headers that DynamicData.hpp only includes; its operations are       *)
(* modelled from their documented contract.                                *)
(*                                                                         *)
(* assert() is modelled as compiled in (NDEBUG not defined): a failed      *)
(* assertion aborts the process, after which nothing runs.  A step whose   *)
(* behaviour is undefined in C++ (a read through the wrong type, a read of *)
(* destroyed content) leaves what it wrote or returned indeterminate: it   *)
(* may be anything.  The model does not follow a run past such a step.     *)
(***************************************************************************)
EXTENDS Integers, Sequences, FiniteSets, TLC

\* Number of DynamicData objects a run creates.
MaxObjs == 2

\* bounds() of the sequence type SEQ_INT32: sequence<int32_t, 2>.
SeqBound == 2

Objs == 1..MaxObjs
Bufs == 1..MaxObjs

\* Sample contents of the scalar kinds.
Int32Values == {0, 1}
StringValues == {"", "a"}

-----------------------------------------------------------------------------
(* The type descriptors under test:                                        *)
(*   INT32     primitive_type<int32_t>()                                   *)
(*   STRING    StringType()                                                *)
(*   SEQ_INT32 SequenceType(primitive_type<int32_t>(), 2)                  *)
(*   STRUCT    StructType{ x : INT32, s : SEQ_INT32 }                      *)

TypeIds == {"INT32", "STRING", "SEQ_INT32", "STRUCT"}

\* The types DynamicData objects are created from; SEQ_INT32 instances are
\* reached as the member s of a STRUCT.
RootTypes == {"INT32", "STRING", "STRUCT"}

kind(t) ==
    CASE t = "INT32" -> "INT_32_TYPE"
      [] t = "STRING" -> "STRING_TYPE"
      [] t = "SEQ_INT32" -> "SEQUENCE_TYPE"
      [] t = "STRUCT" -> "STRUCTURE_TYPE"

is_primitive_type(t) == kind(t) = "INT_32_TYPE"

is_collection_type(t) == kind(t) = "SEQUENCE_TYPE"

\* StructType: the members in declaration order; a member's offset is its
\* position in this list.
members(t) ==
    IF t = "STRUCT"
    THEN << [name |-> "x", type |-> "INT32"], [name |-> "s", type |-> "SEQ_INT32"] >>
    ELSE << >>

MemberNames == {"x", "s", "zz"}

has_member(t, name) == \E k \in 1..Len(members(t)) : members(t)[k].name = name

\* The offset (position) of the member called name.
member(t, name) == CHOOSE k \in 1..Len(members(t)) : members(t)[k].name = name

\* CollectionType: the element type.
content_type(t) == "INT32"

\* The C++ types T of the value<T>, push<T> and as_vector<T> templates.
CppTypes == {"int32_t", "std::string"}

\* T is the C++ representation of an instance of type t.
Compatible(t, T) ==
    \/ t = "INT32" /\ T = "int32_t"
    \/ t = "STRING" /\ T = "std::string"

CppValues(T) == IF T = "int32_t" THEN Int32Values ELSE StringValues

-----------------------------------------------------------------------------
(* Contents.  An INT32 is an integer, a STRING a string, a sequence the    *)
(* tuple of its elements, a structure the tuple of its members' contents   *)
(* in declaration order.                                                   *)

SeqValues == UNION { [1..n -> Int32Values] : n \in 0..SeqBound }

ValuesOf(t) ==
    CASE t = "INT32" -> Int32Values
      [] t = "STRING" -> StringValues
      [] t = "SEQ_INT32" -> SeqValues
      [] t = "STRUCT" -> Int32Values \X SeqValues

\* What construct_instance leaves at the address.
DefaultValue(t) ==
    CASE t = "INT32" -> 0
      [] t = "STRING" -> ""
      [] t = "SEQ_INT32" -> << >>
      [] t = "STRUCT" -> << 0, << >> >>

\* What a moved-from instance may hold when move_instance left it emptied.
EmptiedValue(t, v) ==
    CASE t = "INT32" -> v
      [] t = "STRING" -> ""
      [] t = "SEQ_INT32" -> << >>
      [] t = "STRUCT" -> << v[1], << >> >>

(* An instance address is <<b, p>>: the buffer b plus the path p from the   *)
(* buffer's start, a sequence of steps <<"m", k>> (the offset of structure *)
(* member k) and <<"e", i>> (collection element i).                        *)
MemberStep(k) == << "m", k >>
ElemStep(i) == << "e", i >>
StepSlot(s) == IF s[1] = "m" THEN s[2] ELSE s[2] + 1

RECURSIVE TypeAt(_, _)
TypeAt(t, p) ==
    IF p = << >> THEN t
    ELSE IF Head(p)[1] = "m"
         THEN TypeAt(members(t)[Head(p)[2]].type, Tail(p))
         ELSE TypeAt(content_type(t), Tail(p))

RECURSIVE ValAt(_, _)
ValAt(v, p) == IF p = << >> THEN v ELSE ValAt(v[StepSlot(Head(p))], Tail(p))

RECURSIVE SetAt(_, _, _)
SetAt(v, p, x) ==
    IF p = << >> THEN x
    ELSE [v EXCEPT ![StepSlot(Head(p))] = SetAt(v[StepSlot(Head(p))], Tail(p), x)]

\* The paths of the sub-instances of an instance of type t holding v.
RECURSIVE PathsOf(_, _)
PathsOf(t, v) ==
    {<< >>} \cup
    CASE kind(t) = "STRUCTURE_TYPE" ->
           UNION { { <<MemberStep(k)>> \o q : q \in PathsOf(members(t)[k].type, v[k]) }
                   : k \in 1..Len(members(t)) }
      [] kind(t) = "SEQUENCE_TYPE" ->
           UNION { { <<ElemStep(i)>> \o q : q \in PathsOf(content_type(t), v[i + 1]) }
                   : i \in 0..(Len(v) - 1) }
      [] OTHER -> {}

IsPrefix(p, q) == Len(p) <= Len(q) /\ SubSeq(q, 1, Len(p)) = p
Overlap(p, q) == IsPrefix(p, q) \/ IsPrefix(q, p)

-----------------------------------------------------------------------------
VARIABLES
    objState,   \* per object: "unborn", "alive" or "dead" (destructor has run)
    type_,      \* per object: ReadableDynamicDataRef::type_
    instance_,  \* per object: ReadableDynamicDataRef::instance_, a buffer or 0
    heap,       \* per buffer: allocation state, construction state, content
    bad,        \* lifecycle violations seen so far (a set of tags)
    last,       \* the last operation, its operands and its outcome
    seen        \* the last for_each that returned: what its visitor was given

vars == << objState, type_, instance_, heap, bad, last, seen >>

NoAddr == << 0, << >> >>

\* The record of one call: the operation, the DynamicData object(s) it went
\* through, the instance addresses of its views, the C++ argument, whether the
\* documented precondition held, how the call ended ("ok": returned, "abort":
\* an assertion failed, "ub": undefined behaviour), and what it returned.
Last(op, obj, other, tgt, src, arg, pre, res, ub, ret) ==
    [op |-> op, obj |-> obj, other |-> other, tgt |-> tgt, src |-> src,
     arg |-> arg, pre |-> pre, res |-> res, ub |-> ub, ret |-> ret]

\* No call is in progress: the caller is between two calls.
NoCall == Last("idle", 0, 0, NoAddr, NoAddr, 0, TRUE, "ok", "none", 0)

\* No for_each has returned yet.
NoWalk == [op |-> "none", tgt |-> NoAddr, nodes |-> << >>, content |-> 0]

FreeCell ==
    [mem |-> "unallocated", con |-> "raw", type |-> "NONE", val |-> 0, dead |-> {}, junk |-> {}]

Init ==
    /\ objState = [o \in Objs |-> "unborn"]
    /\ type_ = [o \in Objs |-> "NONE"]
    /\ instance_ = [o \in Objs |-> 0]
    /\ heap = [b \in Bufs |-> FreeCell]
    /\ bad = {}
    /\ last = NoCall
    /\ seen = NoWalk

\* The caller is between two calls: no call's outcome is pending and no
\* assertion has aborted the process.
Idle == last.op = "idle"

Alive == { o \in Objs : objState[o] = "alive" }
Unborn == { o \in Objs : objState[o] = "unborn" }

\* Objects are numbered in creation order.
NextObj == CHOOSE o \in Unborn : \A u \in Unborn : o <= u

-----------------------------------------------------------------------------
(* The heap and the DynamicType lifecycle operations.  They work on a      *)
(* machine record m = [heap, bad, ub], so that a handler is the            *)
(* composition of its calls in program order.                              *)

Mach == [heap |-> heap, bad |-> bad, ub |-> "none"]

\* The address new[] returns: a buffer never handed out before.
NewBuf ==
    CHOOSE b \in Bufs :
        /\ heap[b].mem = "unallocated"
        /\ \A c \in Bufs : heap[c].mem = "unallocated" => b <= c

\* new uint8_t[type.memory_size()]
new_array(m, t, b) ==
    [m EXCEPT !.heap[b] = [mem |-> "allocated", con |-> "raw", type |-> t,
                           val |-> 0, dead |-> {}, junk |-> {}],
              !.bad = IF m.heap[b].mem = "unallocated" THEN @ ELSE @ \cup {"allocated_twice"}]

\* delete[] instance_
delete_array(m, b) ==
    LET c == m.heap[b] IN
    IF c.mem # "allocated"
    THEN [m EXCEPT !.bad = @ \cup {"double_free"}]
    ELSE [m EXCEPT !.heap[b] = [c EXCEPT !.mem = "freed", !.type = "NONE", !.val = 0],
                   !.bad = IF c.con = "constructed" /\ c.dead = {<< >>}
                           THEN @ ELSE @ \cup {"free_without_destroy"}]

\* The sub-instance at path p of cell c holds constructed content.
Constructed(c, p) ==
    /\ c.mem = "allocated"
    /\ c.con = "constructed"
    /\ \A d \in c.dead : ~Overlap(d, p)

\* DynamicType::construct_instance
construct_instance(m, t, a) ==
    LET c == m.heap[a[1]] IN
    IF c.mem = "allocated" /\ c.con = "raw" /\ a[2] = << >>
    THEN [m EXCEPT !.heap[a[1]] = [c EXCEPT !.con = "constructed", !.val = DefaultValue(t)]]
    ELSE [m EXCEPT !.bad = @ \cup {"construct_on_constructed"}]

\* DynamicType::destroy_instance
destroy_instance(m, t, a) ==
    LET c == m.heap[a[1]] IN
    IF c.mem # "allocated" THEN [m EXCEPT !.bad = @ \cup {"destroy_freed"}]
    ELSE IF c.con = "raw" THEN [m EXCEPT !.bad = @ \cup {"destroy_unconstructed"}]
    ELSE IF ~Constructed(c, a[2]) THEN [m EXCEPT !.bad = @ \cup {"destroy_destroyed"}]
    ELSE [m EXCEPT !.heap[a[1]].dead = @ \cup {a[2]}]

\* Constructing content x at address a, which must be raw or destroyed.
PlaceAt(m, a, x) ==
    LET c == m.heap[a[1]] IN
    IF c.mem # "allocated" THEN [m EXCEPT !.bad = @ \cup {"write_freed"}]
    ELSE IF c.con = "raw" /\ a[2] = << >>
    THEN [m EXCEPT !.heap[a[1]] = [c EXCEPT !.con = "constructed", !.val = x]]
    ELSE IF a[2] \in c.dead
    THEN [m EXCEPT !.heap[a[1]] = [c EXCEPT !.dead = @ \ {a[2]},
                                            !.val = SetAt(c.val, a[2], x)]]
    ELSE [m EXCEPT !.bad = @ \cup {"copy_over_constructed"}]

\* Constructing at address a from a read whose behaviour is undefined: the
\* content there is indeterminate from now on.
PlaceJunkAt(m, a, why) ==
    LET c == m.heap[a[1]] IN
    IF c.mem # "allocated" THEN [m EXCEPT !.bad = @ \cup {"write_freed"}]
    ELSE IF (c.con = "raw" /\ a[2] = << >>) \/ a[2] \in c.dead
    THEN [m EXCEPT !.heap[a[1]] = [c EXCEPT !.con = "constructed", !.dead = @ \ {a[2]},
                                            !.junk = @ \cup {a[2]}],
                   !.ub = why]
    ELSE [m EXCEPT !.bad = @ \cup {"copy_over_constructed"}, !.ub = why]

\* The type of the instance at address a, as it was constructed.
TypeOfAddr(h, a) == TypeAt(h[a[1]].type, a[2])

\* copy_instance(dst, src) reads src through t although src holds another type.
Foreign(m, t, src) == TypeOfAddr(m.heap, src) # t

\* copy_instance(dst, src) reads content that destroy_instance has ended and
\* that owns resources (a primitive's destroy_instance does nothing).
ReadsDestroyed(m, t, src) ==
    /\ ~is_primitive_type(t)
    /\ ~Constructed(m.heap[src[1]], src[2])

\* DynamicType::copy_instance(dst, src) between instances.
copy_instance(m, t, dst, src) ==
    IF Foreign(m, t, src) THEN PlaceJunkAt(m, dst, "foreign_descriptor")
    ELSE IF ReadsDestroyed(m, t, src) THEN PlaceJunkAt(m, dst, "read_destroyed")
    ELSE PlaceAt(m, dst, ValAt(m.heap[src[1]].val, src[2]))

\* DynamicType::copy_instance(dst, &value) from a C++ object of type T.
copy_value(m, t, dst, T, x) ==
    IF Compatible(t, T) THEN PlaceAt(m, dst, x) ELSE PlaceJunkAt(m, dst, "misread_value")

\* DynamicType::move_instance(dst, src); mv is what the source holds afterwards.
move_instance(m, t, dst, src, mv) ==
    LET x == ValAt(m.heap[src[1]].val, src[2])
        m1 == PlaceAt(m, dst, x)
    IN  [m1 EXCEPT !.heap[src[1]].val = SetAt(@, src[2], mv)]

\* DynamicType::compare_instance(a, b)
compare_instance(m, t, a, b) == ValAt(m.heap[a[1]].val, a[2]) = ValAt(m.heap[b[1]].val, b[2])

\* CollectionType::get_instance_size
get_instance_size(h, a) == Len(ValAt(h[a[1]].val, a[2]))

\* CollectionType::get_instance_at
get_instance_at(a, index) == << a[1], Append(a[2], ElemStep(index)) >>

\* SequenceType::push_instance returns nullptr (FALSE here) when the bounded
\* sequence is full.
push_instance_ok(h, a) == get_instance_size(h, a) < SeqBound

\* SequenceType::push_instance(instance, value): the appended copy.
push_instance(m, a, x) ==
    [m EXCEPT !.heap[a[1]].val = SetAt(@, a[2], Append(ValAt(@, a[2]), x))]

\* push_instance copying from a source it misreads: the new element is
\* indeterminate.
push_instance_junk(m, a, why) ==
    LET n == Len(ValAt(m.heap[a[1]].val, a[2])) IN
    [m EXCEPT !.heap[a[1]].val = SetAt(@, a[2], Append(ValAt(@, a[2]), 0)),
              !.heap[a[1]].junk = @ \cup {Append(a[2], ElemStep(n))},
              !.ub = why]

-----------------------------------------------------------------------------
(* Views.  A view is (type_, instance_); obj is the DynamicData it was     *)
(* reached from by ref() and operator[].                                   *)

Root(o) == << instance_[o], << >> >>

ViewsOf(o) ==
    IF instance_[o] \in Bufs /\ Constructed(heap[instance_[o]], << >>)
    THEN { [type |-> TypeAt(type_[o], p), addr |-> << instance_[o], p >>, obj |-> o] :
           p \in PathsOf(type_[o], heap[instance_[o]].val) }
    ELSE {}

Views == UNION { ViewsOf(o) : o \in Alive }

\* The content at the view's address.
Content(h, a) == ValAt(h[a[1]].val, a[2])

\* What a read whose behaviour is undefined returns.
Indeterminate == "indeterminate"

Outcome(m) == IF m.ub = "none" THEN "ok" ELSE "ub"

Commit(m, lst) ==
    /\ heap' = m.heap
    /\ bad' = m.bad
    /\ last' = lst
    /\ UNCHANGED seen

Born(o, t, b) ==
    /\ objState' = [objState EXCEPT ![o] = "alive"]
    /\ type_' = [type_ EXCEPT ![o] = t]
    /\ instance_' = [instance_ EXCEPT ![o] = b]

-----------------------------------------------------------------------------
(* DynamicData                                                             *)

\* DynamicData(const DynamicType& type)
ctor_type(m, t) ==
    LET b == NewBuf IN
    [m |-> construct_instance(new_array(m, t, b), t, << b, << >> >>), inst |-> b]

Construct(t) ==
    /\ Idle
    /\ Unborn # {}
    /\ LET r == ctor_type(Mach, t) IN
        /\ Born(NextObj, t, r.inst)
        /\ Commit(r.m, Last("DynamicData(type)", NextObj, 0, << r.inst, << >> >>, NoAddr,
                            0, TRUE, "ok", "none", 0))

\* The implicit member-wise copy: the new object takes the source's buffer.
copy_ctor_shallow(m, other) == [m |-> m, inst |-> instance_[other]]

\* DynamicData(const DynamicData& other)
copy_ctor(m, other) ==
    LET b == NewBuf
        t == type_[other]
    IN  [m |-> copy_instance(new_array(m, t, b), t, << b, << >> >>, Root(other)),
         inst |-> b]

CopyConstruct(other) ==
    /\ Idle
    /\ Unborn # {}
    /\ other \in Alive
    /\ LET r == copy_ctor(Mach, other) IN
        /\ Born(NextObj, type_[other], r.inst)
        /\ Commit(r.m, Last("DynamicData(const&)", NextObj, other, << r.inst, << >> >>,
                            Root(other), 0, TRUE, Outcome(r.m), r.m.ub, 0))

\* A move that takes over the source's buffer instead of allocating one.
move_ctor_steal(m, other, mv) == [m |-> m, inst |-> instance_[other]]

\* DynamicData(DynamicData&& other)
move_ctor(m, other, mv) ==
    LET b == NewBuf
        t == type_[other]
    IN  [m |-> move_instance(new_array(m, t, b), t, << b, << >> >>, Root(other), mv),
         inst |-> b]

MoveConstruct(other) ==
    /\ Idle
    /\ Unborn # {}
    /\ other \in Alive
    /\ \E mv \in { Content(heap, Root(other)),
                    EmptiedValue(type_[other], Content(heap, Root(other))) } :
        LET r == move_ctor(Mach, other, mv) IN
        /\ Born(NextObj, type_[other], r.inst)
        /\ Commit(r.m, Last("DynamicData(&&)", NextObj, other, << r.inst, << >> >>,
                            Root(other), 0, TRUE, "ok", "none", 0))

\* A copy assignment that omits destroy_instance.
copy_assign_no_destroy(m, o, other) ==
    copy_instance(m, type_[o], Root(o), Root(other))

\* DynamicData& operator=(const DynamicData& other)
copy_assign(m, o, other) ==
    copy_instance(destroy_instance(m, type_[o], Root(o)), type_[o], Root(o), Root(other))

CopyAssign(o, other) ==
    /\ Idle
    /\ o \in Alive
    /\ other \in Alive
    /\ LET m == copy_assign(Mach, o, other) IN
        Commit(m, Last("DynamicData::operator=", o, other, Root(o), Root(other), 0,
                       type_[o] = type_[other], Outcome(m), m.ub, 0))
    /\ UNCHANGED << objState, type_, instance_ >>

\* A destructor that frees the buffer without destroying its content.
dtor_no_destroy(m, o) == delete_array(m, instance_[o])

\* ~DynamicData()
dtor(m, o) == delete_array(destroy_instance(m, type_[o], Root(o)), instance_[o])

Destroy(o) ==
    /\ Idle
    /\ o \in Alive
    /\ objState' = [objState EXCEPT ![o] = "dead"]
    /\ Commit(dtor(Mach, o), Last("~DynamicData", o, 0, Root(o), NoAddr, 0, TRUE,
                                  "ok", "none", 0))
    /\ type_' = [type_ EXCEPT ![o] = "NONE"]
    /\ UNCHANGED instance_

Lifecycle ==
    \/ Idle /\ \E t \in RootTypes : Construct(t)
    \/ Idle /\ \E other \in Objs : CopyConstruct(other)
    \/ Idle /\ \E other \in Objs : MoveConstruct(other)
    \/ Idle /\ \E o, other \in Objs : CopyAssign(o, other)
    \/ Idle /\ \E o \in Objs : Destroy(o)

-----------------------------------------------------------------------------
(* ReadableDynamicDataRef                                                  *)

Frame == UNCHANGED << objState, type_, instance_ >>

\* A read: nothing but the call record changes.
ReadOnly(lst) ==
    /\ last' = lst
    /\ UNCHANGED << objState, type_, instance_, heap, bad, seen >>

\* bool operator==(const ReadableDynamicDataRef& other) const
Equals(v, w) ==
    /\ Idle
    /\ IF TypeOfAddr(heap, w.addr) = v.type
       THEN ReadOnly(Last("operator==", v.obj, w.obj, v.addr, w.addr, 0, TRUE, "ok", "none",
                          compare_instance(Mach, v.type, v.addr, w.addr)))
       ELSE ReadOnly(Last("operator==", v.obj, w.obj, v.addr, w.addr, 0, FALSE, "ub",
                          "foreign_descriptor", Indeterminate))

\* The assertion of value<T>() and of value(const T&).
value_assert(t) == is_primitive_type(t) \/ kind(t) = "STRING_TYPE"

\* T& value() const
GetValue(v, T) ==
    /\ Idle
    /\ IF ~value_assert(v.type)
       THEN ReadOnly(Last("value<T>()", v.obj, 0, v.addr, NoAddr, T, Compatible(v.type, T),
                          "abort", "none", 0))
       ELSE IF Compatible(v.type, T)
       THEN ReadOnly(Last("value<T>()", v.obj, 0, v.addr, NoAddr, T, TRUE, "ok", "none",
                          Content(heap, v.addr)))
       ELSE ReadOnly(Last("value<T>()", v.obj, 0, v.addr, NoAddr, T, FALSE, "ub", "bad_cast",
                          Indeterminate))

\* The assertion of string() and of string(const std::string&).
string_assert(t) == kind(t) = "STRING_TYPE"

\* const std::string& string() const
GetString(v) ==
    /\ Idle
    /\ ReadOnly(Last("string()", v.obj, 0, v.addr, NoAddr, 0, kind(v.type) = "STRING_TYPE",
                     IF string_assert(v.type) THEN "ok" ELSE "abort", "none",
                     IF string_assert(v.type) THEN Content(heap, v.addr) ELSE 0))

\* The assertions of operator[](const std::string&).
member_assert(t, name) == kind(t) = "STRUCTURE_TYPE" /\ has_member(t, name)

\* ReadableDynamicDataRef operator[](const std::string& member_name) const
Member(v, name) ==
    /\ Idle
    /\ ReadOnly(Last("operator[](name)", v.obj, 0, v.addr, NoAddr, name,
                     kind(v.type) = "STRUCTURE_TYPE" /\ has_member(v.type, name),
                     IF member_assert(v.type, name) THEN "ok" ELSE "abort", "none",
                     IF member_assert(v.type, name)
                     THEN << v.addr[1], Append(v.addr[2], MemberStep(member(v.type, name))) >>
                     ELSE NoAddr))

\* The assertion of size().
size_assert(t) == is_collection_type(t)

\* size_t size() const
Size(v) ==
    /\ Idle
    /\ ReadOnly(Last("size()", v.obj, 0, v.addr, NoAddr, 0, is_collection_type(v.type),
                     IF size_assert(v.type) THEN "ok" ELSE "abort", "none",
                     IF size_assert(v.type) THEN get_instance_size(heap, v.addr) ELSE 0))

\* The assertion of operator[](size_t).
index_assert(v, index) ==
    is_collection_type(v.type) /\ index < get_instance_size(heap, v.addr)

\* ReadableDynamicDataRef operator[](size_t index) const
Index(v, index) ==
    /\ Idle
    /\ ReadOnly(Last("operator[](index)", v.obj, 0, v.addr, NoAddr, index,
                     is_collection_type(v.type) /\ index < get_instance_size(heap, v.addr),
                     IF index_assert(v, index) THEN "ok" ELSE "abort", "none",
                     IF index_assert(v, index) THEN get_instance_at(v.addr, index) ELSE NoAddr))

\* The two assertions of as_vector<T>().
as_vector_assert(t) ==
    /\ is_collection_type(t)
    /\ is_primitive_type(t) \/ kind(content_type(t)) = "STRING_TYPE"

\* std::vector<T> as_vector() const
AsVector(v, T) ==
    /\ Idle
    /\ LET pre == is_collection_type(v.type) /\ Compatible(content_type(v.type), T) IN
       IF ~as_vector_assert(v.type)
       THEN ReadOnly(Last("as_vector<T>()", v.obj, 0, v.addr, NoAddr, T, pre, "abort", "none",
                          << >>))
       ELSE IF pre
       THEN ReadOnly(Last("as_vector<T>()", v.obj, 0, v.addr, NoAddr, T, pre, "ok", "none",
                          Content(heap, v.addr)))
       ELSE ReadOnly(Last("as_vector<T>()", v.obj, 0, v.addr, NoAddr, T, pre, "ub", "bad_cast",
                          Indeterminate))

ReadOps ==
    \/ Idle /\ \E v, w \in Views : Equals(v, w)
    \/ Idle /\ \E v \in Views, T \in CppTypes : GetValue(v, T)
    \/ Idle /\ \E v \in Views : GetString(v)
    \/ Idle /\ \E v \in Views, name \in MemberNames : Member(v, name)
    \/ Idle /\ \E v \in Views : Size(v)
    \/ Idle /\ \E v \in Views, index \in 0..SeqBound : Index(v, index)
    \/ Idle /\ \E v \in Views, T \in CppTypes : AsVector(v, T)

-----------------------------------------------------------------------------
(* WritableDynamicDataRef                                                  *)

\* WritableDynamicDataRef& operator=(const WritableDynamicDataRef& other)
view_assign(m, v, w) ==
    copy_instance(destroy_instance(m, v.type, v.addr), v.type, v.addr, w.addr)

ViewAssign(v, w) ==
    /\ Idle
    /\ LET m == view_assign(Mach, v, w) IN
        Commit(m, Last("operator=", v.obj, w.obj, v.addr, w.addr, 0, v.type = w.type,
                       Outcome(m), m.ub, 0))
    /\ Frame

\* void value(const T& t)
value_set(m, v, T, x) ==
    copy_value(destroy_instance(m, v.type, v.addr), v.type, v.addr, T, x)

SetValue(v, T, x) ==
    /\ Idle
    /\ x \in CppValues(T)
    /\ IF ~value_assert(v.type)
       THEN /\ last' = Last("value(T)", v.obj, 0, v.addr, NoAddr, x, Compatible(v.type, T),
                            "abort", "none", 0)
            /\ UNCHANGED << heap, bad, seen >>
       ELSE LET m == value_set(Mach, v, T, x) IN
            Commit(m, Last("value(T)", v.obj, 0, v.addr, NoAddr, x, Compatible(v.type, T),
                           Outcome(m), m.ub, 0))
    /\ Frame

\* void string(const std::string& s)
string_set(m, v, x) ==
    copy_value(destroy_instance(m, v.type, v.addr), v.type, v.addr, "std::string", x)

SetString(v, x) ==
    /\ Idle
    /\ x \in StringValues
    /\ IF ~string_assert(v.type)
       THEN /\ last' = Last("string(s)", v.obj, 0, v.addr, NoAddr, x,
                            kind(v.type) = "STRING_TYPE", "abort", "none", 0)
            /\ UNCHANGED << heap, bad, seen >>
       ELSE LET m == string_set(Mach, v, x) IN
            Commit(m, Last("string(s)", v.obj, 0, v.addr, NoAddr, x,
                           kind(v.type) = "STRING_TYPE", Outcome(m), m.ub, 0))
    /\ Frame

\* The first assertion of push.
push_assert(t) == kind(t) = "SEQUENCE_TYPE"

\* A push that returns without appending.
push_dropped(m, v, T, x) ==
    [m |-> m, res |-> IF push_assert(v.type) THEN "ok" ELSE "abort"]

\* A push that does not check the element address push_instance returned.
push_unchecked(m, v, T, x) ==
    IF ~push_assert(v.type) THEN [m |-> m, res |-> "abort"]
    ELSE IF ~push_instance_ok(m.heap, v.addr) THEN [m |-> m, res |-> "ok"]
    ELSE IF Compatible(content_type(v.type), T)
    THEN [m |-> push_instance(m, v.addr, x), res |-> "ok"]
    ELSE [m |-> push_instance_junk(m, v.addr, "misread_value"), res |-> "ub"]

\* WritableDynamicDataRef& push(const T& value)
push(m, v, T, x) ==
    IF ~push_assert(v.type) THEN [m |-> m, res |-> "abort"]
    ELSE IF ~push_instance_ok(m.heap, v.addr) THEN [m |-> m, res |-> "abort"]
    ELSE IF Compatible(content_type(v.type), T)
    THEN [m |-> push_instance(m, v.addr, x), res |-> "ok"]
    ELSE [m |-> push_instance_junk(m, v.addr, "misread_value"), res |-> "ub"]

PushValue(v, T, x) ==
    /\ Idle
    /\ x \in CppValues(T)
    /\ LET r == push(Mach, v, T, x) IN
        Commit(r.m, Last("push(T)", v.obj, 0, v.addr, NoAddr, x, push_assert(v.type),
                         r.res, r.m.ub, 0))
    /\ Frame

\* WritableDynamicDataRef& push(const WritableDynamicDataRef& data)
push_view(m, v, w) ==
    IF ~push_assert(v.type) THEN [m |-> m, res |-> "abort"]
    ELSE IF ~push_instance_ok(m.heap, v.addr) THEN [m |-> m, res |-> "abort"]
    ELSE IF TypeOfAddr(m.heap, w.addr) = content_type(v.type)
    THEN [m |-> push_instance(m, v.addr, Content(m.heap, w.addr)), res |-> "ok"]
    ELSE [m |-> push_instance_junk(m, v.addr, "foreign_descriptor"), res |-> "ub"]

PushView(v, w) ==
    /\ Idle
    /\ LET r == push_view(Mach, v, w) IN
        Commit(r.m, Last("push(view)", v.obj, w.obj, v.addr, w.addr, 0, push_assert(v.type),
                         r.res, r.m.ub, 0))
    /\ Frame

WriteOps ==
    \/ Idle /\ \E v, w \in Views : ViewAssign(v, w)
    \/ Idle /\ \E v \in Views, T \in CppTypes : \E x \in CppValues(T) : SetValue(v, T, x)
    \/ Idle /\ \E v \in Views, x \in StringValues : SetString(v, x)
    \/ Idle /\ \E v \in Views, T \in CppTypes : \E x \in CppValues(T) : PushValue(v, T, x)
    \/ Idle /\ \E v, w \in Views : PushView(v, w)

-----------------------------------------------------------------------------
(* for_each.  The walk is DynamicType::for_each_instance: it hands the     *)
(* node on top of its stack to the callback and goes on with the node's    *)
(* children, then with the rest.  The visitor records the node it is       *)
(* given and writes nothing.                                                *)

ForEachOps == {"for_each", "for_each(mutable)"}

\* Instanceable::InstanceNode: the type, the instance and the depth below
\* the root of the walk.
InstanceNode(t, a, d) == [type |-> t, instance |-> a, deep |-> d]

\* The nodes for_each_instance goes on with below node n, in its order.
ChildNodes(h, n) ==
    CASE kind(n.type) = "STRUCTURE_TYPE" ->
           [k \in 1..Len(members(n.type)) |->
               InstanceNode(members(n.type)[k].type,
                            << n.instance[1], Append(n.instance[2], MemberStep(k)) >>,
                            n.deep + 1)]
      [] kind(n.type) = "SEQUENCE_TYPE" ->
           [i \in 1..get_instance_size(h, n.instance) |->
               InstanceNode(content_type(n.type),
                            << n.instance[1], Append(n.instance[2], ElemStep(i - 1)) >>,
                            n.deep + 1)]
      [] OTHER -> << >>

\* ReadableNode(instance_node): data() is the view (type, instance).
ReadableNode(n) == [data |-> [type |-> n.type, addr |-> n.instance], deep |-> n.deep]

\* WritableNode(instance_node) : ReadableNode(instance_node)
WritableNode(n) == ReadableNode(n)

\* A walk that starts at the root's children and never visits the root.
for_each_members(v) == ChildNodes(heap, InstanceNode(v.type, v.addr, 0))

\* void for_each(std::function<void(const ReadableNode&)> visitor) const:
\* the nodes for_each_instance starts with.
for_each(v) == << InstanceNode(v.type, v.addr, 0) >>

\* void for_each(std::function<void(const WritableNode&)> visitor)
for_each_mutable(v) == << InstanceNode(v.type, v.addr, 0) >>

ForEach(v) ==
    /\ Idle
    /\ ReadOnly(Last("for_each", v.obj, 0, v.addr, NoAddr, for_each(v), TRUE, "running",
                     "none", << >>))

ForEachMutable(v) ==
    /\ Idle
    /\ ReadOnly(Last("for_each(mutable)", v.obj, 0, v.addr, NoAddr, for_each_mutable(v), TRUE,
                     "running", "none", << >>))

\* for_each_instance calls the lambda on the next node; the lambda wraps it
\* and calls the visitor.
Visit ==
    /\ last.op \in ForEachOps
    /\ last.res = "running"
    /\ last.arg # << >>
    /\ LET n == Head(last.arg) IN
        ReadOnly([last EXCEPT !.arg = ChildNodes(heap, n) \o Tail(last.arg),
                              !.ret = Append(@, IF last.op = "for_each" THEN ReadableNode(n)
                                                ELSE WritableNode(n))])

\* for_each_instance has no node left; for_each returns.
Finish ==
    /\ last.op \in ForEachOps
    /\ last.res = "running"
    /\ last.arg = << >>
    /\ ReadOnly([last EXCEPT !.res = "ok"])

-----------------------------------------------------------------------------
\* The call returned; the caller drops its result (a returned reference or
\* child view goes out of scope) and goes on.
Return ==
    /\ last.op # "idle"
    /\ last.res = "ok"
    /\ last' = NoCall
    /\ seen' = IF last.op \in ForEachOps
               THEN [op |-> last.op, tgt |-> last.tgt, nodes |-> last.ret,
                     content |-> Content(heap, last.tgt)]
               ELSE seen
    /\ UNCHANGED << objState, type_, instance_, heap, bad >>

Next == Lifecycle \/ ReadOps \/ WriteOps \/ Return

Spec == Init /\ [][Next]_vars

\* The walks of one DynamicData: it is created, written through its views
\* and walked, any number of times.
ConstructOne(t) ==
    /\ Alive = {}
    /\ Construct(t)

WalkNext ==
    \/ Idle /\ \E t \in RootTypes : ConstructOne(t)
    \/ Idle /\ \E v \in Views, T \in CppTypes : \E x \in CppValues(T) : SetValue(v, T, x)
    \/ Idle /\ \E v \in Views, x \in StringValues : SetString(v, x)
    \/ Idle /\ \E v \in Views, T \in CppTypes : \E x \in CppValues(T) : PushValue(v, T, x)
    \/ Idle /\ \E v \in Views : ForEach(v)
    \/ Idle /\ \E v \in Views : ForEachMutable(v)
    \/ Visit
    \/ Finish
    \/ Return

SpecWalk == Init /\ [][WalkNext]_vars

-----------------------------------------------------------------------------
(* Properties                                                              *)

Cell(o) == heap[instance_[o]]

\* The content at path p of cell c is what the program wrote there.
Determinate(c, p) == \A j \in c.junk : ~Overlap(j, p)

Owners(b) == { o \in Objs : objState[o] # "unborn" /\ instance_[o] = b }

\* C1: every DynamicData has a buffer of its own that was allocated once and
\* constructed once at birth; while the object lives the buffer holds
\* constructed content (each destroy_instance was followed by one
\* copy_instance); after the destructor it is destroyed once and freed once;
\* no lifecycle call ever ran on a buffer in the wrong state.
C1_Lifecycle ==
    /\ bad = {}
    /\ \A b \in Bufs :
          Cardinality(Owners(b)) = IF heap[b].mem = "unallocated" THEN 0 ELSE 1
    /\ \A o \in Objs :
          /\ objState[o] = "unborn" => instance_[o] = 0
          /\ objState[o] = "alive" =>
                /\ Cell(o).mem = "allocated"
                /\ Cell(o).con = "constructed"
                /\ Cell(o).dead = {}
                /\ Cell(o).type = type_[o]
          /\ objState[o] = "dead" =>
                /\ Cell(o).mem = "freed"
                /\ Cell(o).con = "constructed"
                /\ Cell(o).dead = {<< >>}

\* C1 witness: every object has been created and destroyed, each in a
\* buffer of its own, and the last call was a destructor.
C1_Witness ==
    /\ \A o \in Objs : objState[o] = "dead" /\ Cell(o).mem = "freed"
    /\ \A o, n \in Objs : o # n => instance_[o] # instance_[n]
    /\ last.op = "~DynamicData"

CopyOps == {"DynamicData(const&)", "DynamicData::operator="}

MutatingOps ==
    {"operator=", "value(T)", "string(s)", "push(T)", "push(view)", "DynamicData::operator="}

\* C2: a copy construction or copy assignment of b from another object a
\* leaves the two with distinct buffers and equal content, and a call that
\* mutates through one DynamicData leaves the buffer of every other one as
\* it was.
C2_CopyIsolation ==
    [][ /\ (last'.op \in CopyOps /\ last'.res = "ok" /\ last'.obj # last'.other) =>
              /\ instance_'[last'.obj] # instance_'[last'.other]
              /\ Content(heap', << instance_'[last'.obj], << >> >>) = Content(heap, Root(last'.other))
              /\ Content(heap', Root(last'.other)) = Content(heap, Root(last'.other))
        /\ last'.op \in MutatingOps =>
              \A a \in Alive \ {last'.obj} : heap'[instance_'[a]] = heap[instance_[a]]
      ]_vars

\* C2 witness: a structure holding a non-empty sequence has just been
\* copy-constructed into a second object.
C2_Witness ==
    /\ last.op = "DynamicData(const&)"
    /\ last.res = "ok"
    /\ type_[last.obj] = "STRUCT"
    /\ Content(heap, Root(last.obj))[2] # << >>
    /\ Content(heap, Root(last.obj)) = Content(heap, Root(last.other))

\* C3: a move construction gives the new object a buffer distinct from the
\* source's that holds what the source held, and leaves the source
\* constructed; a destructor call destroys and frees the live buffer of
\* its own object, touches no other buffer and releases nothing twice.
C3_MoveIndependence ==
    [][ /\ last'.op = "DynamicData(&&)" =>
              /\ instance_'[last'.obj] # instance_'[last'.other]
              /\ Content(heap', << instance_'[last'.obj], << >> >>) = Content(heap, Root(last'.other))
              /\ Constructed(heap'[instance_'[last'.other]], << >>)
              /\ bad' = {}
        /\ last'.op = "~DynamicData" =>
              /\ Constructed(Cell(last'.obj), << >>)
              /\ heap'[instance_[last'.obj]].mem = "freed"
              /\ \A b \in Bufs \ {instance_[last'.obj]} : heap'[b] = heap[b]
              /\ bad' = {}
      ]_vars

\* C3 witness: a string with content has just been move-constructed into a
\* second object, and the source is still alive.
C3_Witness ==
    /\ last.op = "DynamicData(&&)"
    /\ type_[last.obj] = "STRING"
    /\ Content(heap, Root(last.obj)) = "a"
    /\ last.other \in Alive

\* C4: an assignment whose source and target are the same instance leaves
\* the instance constructed with the content it had, and its copy step
\* reads no destroyed content.
C4_SelfAssignSafe ==
    [][ (last'.op \in {"operator=", "DynamicData::operator="} /\ last'.tgt = last'.src) =>
            /\ last'.ub = "none"
            /\ Constructed(heap'[last'.tgt[1]], last'.tgt[2])
            /\ Determinate(heap'[last'.tgt[1]], last'.tgt[2])
            /\ Content(heap', last'.tgt) = Content(heap, last'.tgt)
      ]_vars

AccessorOps ==
    {"value<T>()", "string()", "operator[](name)", "operator[](index)", "size()",
     "push(T)", "push(view)"}

\* C5: an accessor call whose precondition does not hold fails at the call
\* (an assertion aborts); it never returns.
C5_FailFast == (last.op \in AccessorOps /\ ~last.pre) => last.res = "abort"

\* C6: no call reads, destroys or writes an instance through a type
\* descriptor other than the one the instance was constructed with.
C6_OwnDescriptorOnly == last.ub # "foreign_descriptor"

ElementViews == { v \in Views : v.addr[2] # << >> /\ v.addr[2][Len(v.addr[2])][1] = "e" }

Disjoint(a, b) == a[1] # b[1] \/ ~Overlap(a[2], b[2])

\* C7: a push that returns makes the sequence one longer, with the pushed
\* value (or the content the pushed view had) at the new index and the
\* elements below it unchanged; and a later mutation through a view leaves
\* every sequence element outside that view unchanged.
C7_PushAppends ==
    [][ /\ (last'.op \in {"push(T)", "push(view)"} /\ last'.res = "ok") =>
              LET old == Content(heap, last'.tgt)
                  new == Content(heap', last'.tgt)
                  x == IF last'.op = "push(T)" THEN last'.arg ELSE Content(heap, last'.src)
              IN  /\ Len(new) = Len(old) + 1
                  /\ new[Len(old) + 1] = x
                  /\ SubSeq(new, 1, Len(old)) = old
        /\ last'.op \in MutatingOps =>
              \A e \in ElementViews :
                  Disjoint(e.addr, last'.tgt) => Content(heap', e.addr) = Content(heap, e.addr)
      ]_vars

\* C7 witness: a view was pushed onto a sequence of one element, which now
\* has two different elements.
C7_Witness ==
    /\ last.op = "push(view)"
    /\ last.res = "ok"
    /\ Len(Content(heap, last.tgt)) = 2
    /\ Content(heap, last.tgt)[1] # Content(heap, last.tgt)[2]

\* C8: as_vector<T>() on a collection whose elements are compatible with T
\* returns, and returns the elements in index order.
C8_AsVector ==
    (last.op = "as_vector<T>()" /\ last.pre) =>
        (last.res = "ok" /\ last.ret = Content(heap, last.tgt))

\* p comes before q in document order: p is an ancestor of q, or where the
\* two paths part p takes the earlier member or element.
DocBefore(p, q) ==
    /\ p # q
    /\ \/ IsPrefix(p, q)
       \/ \E k \in 1..Len(p) :
             /\ k <= Len(q)
             /\ SubSeq(p, 1, k - 1) = SubSeq(q, 1, k - 1)
             /\ StepSlot(p[k]) < StepSlot(q[k])

\* C9: a for_each leaves the instance as it is; when it returns, the nodes
\* the visitor was given are exactly the sub-instances of the view, each
\* once, in document order, each with its own type and depth; and they are
\* the nodes the previous for_each (read-only or mutable) on the same view
\* delivered if the content is what it was then.
C9_ForEach ==
    [][ last'.op \in ForEachOps =>
          /\ heap' = heap
          /\ last'.res = "ok" =>
                LET nodes == last'.ret
                    root == last'.tgt
                    N == Len(nodes)
                IN  /\ { nodes[i].data.addr : i \in 1..N } =
                         { << root[1], root[2] \o q >> :
                             q \in PathsOf(TypeOfAddr(heap, root), Content(heap, root)) }
                    /\ \A i, j \in 1..N :
                          i < j => DocBefore(nodes[i].data.addr[2], nodes[j].data.addr[2])
                    /\ \A i \in 1..N :
                          /\ nodes[i].data.type = TypeOfAddr(heap, nodes[i].data.addr)
                          /\ nodes[i].deep = Len(nodes[i].data.addr[2]) - Len(root[2])
                    /\ (seen.tgt = root /\ seen.content = Content(heap, root)) =>
                          nodes = seen.nodes
      ]_vars

\* C9 witness: a mutable for_each over a structure whose sequence has two
\* elements has just returned its five nodes, and the for_each before it
\* was a read-only one on the same, unmodified view.
C9_Witness ==
    /\ last.op = "for_each(mutable)"
    /\ last.res = "ok"
    /\ Len(last.ret) = 5
    /\ seen.op = "for_each"
    /\ seen.tgt = last.tgt
    /\ seen.content = Content(heap, last.tgt)

=============================================================================
